---- MODULE Spec2Model ----
(***************************************************************************)
(* Model of the archive ingestion pipeline of the MCP server backend:      *)
(* ZipHandler (mcp/tools/zipHandler.ts), SecurityValidator                 *)
(* (utils/security.ts), ContextManager (mcp/tools/contextManager.ts) and   *)
(* the two entry points of an ingestion (api/routes.ts, mcp/mcpServer.ts). *)
(*                                                                         *)
(* Strings are sequences of one-character strings, so that splitting,      *)
(* extension lookup and sanitising are computed character by character.    *)
(* The token "NUL" stands for the control character \x00.                  *)
(* A filesystem path is a sequence of segments from the root "/".          *)
(***************************************************************************)
EXTENDS Integers, Sequences, FiniteSets, TLC

(***************************************************************************)
(* Bounds of the model                                                     *)
(***************************************************************************)
\* longest input string given to the path sanitiser
MaxNameLen == 4
\* largest number of explicitly listed members of an archive
MaxEntries == 2

(***************************************************************************)
(* Program constants                                                       *)
(***************************************************************************)
MiB == 1048576
maxExtractedSize == 100 * MiB
maxFiles == 1000
maxFileSize == 50 * MiB
maxEntrySize == 10 * MiB
maxRatio == 100

Null == "null"
\* undefined, for a value that is << v >> when it is defined
None == << >>

(***************************************************************************)
(* String helpers                                                          *)
(***************************************************************************)
Min(a, b) == IF a < b THEN a ELSE b

UpperLetters ==
  << "A","B","C","D","E","F","G","H","I","J","K","L","M",
     "N","O","P","Q","R","S","T","U","V","W","X","Y","Z" >>
LowerLetters ==
  << "a","b","c","d","e","f","g","h","i","j","k","l","m",
     "n","o","p","q","r","s","t","u","v","w","x","y","z" >>

\* String.prototype.toLowerCase, one character
LowerChar(c) ==
  IF \E i \in 1..26 : UpperLetters[i] = c
  THEN LowerLetters[CHOOSE i \in 1..26 : UpperLetters[i] = c]
  ELSE c

toLowerCase(s) == [i \in 1..Len(s) |-> LowerChar(s[i])]

\* String.prototype.includes for a substring
includes(s, sub) ==
  \E i \in 1..(Len(s) - Len(sub) + 1) : SubSeq(s, i, i + Len(sub) - 1) = sub

startsWith(s, pre) ==
  Len(s) >= Len(pre) /\ SubSeq(s, 1, Len(pre)) = pre

\* index of the first "/" of s, 0 when there is none
RECURSIVE FirstSlash(_, _)
FirstSlash(s, i) ==
  IF i > Len(s) THEN 0
  ELSE IF s[i] = "/" THEN i
  ELSE FirstSlash(s, i + 1)

\* String.prototype.split('/'): "" gives [""], "a/" gives ["a", ""]
RECURSIVE split(_)
split(s) ==
  LET k == FirstSlash(s, 1) IN
  IF k = 0 THEN << s >>
  ELSE << SubSeq(s, 1, k - 1) >> \o split(SubSeq(s, k + 1, Len(s)))

\* Array.prototype.join('/')
RECURSIVE join(_)
join(segs) ==
  IF segs = << >> THEN << >>
  ELSE IF Len(segs) = 1 THEN segs[1]
  ELSE segs[1] \o << "/" >> \o join(Tail(segs))

(***************************************************************************)
(* sanitize-filename 1.6.x, the dependency called by sanitizeFilePath      *)
(* as sanitize(component, { replacement: '_' }).  It replaces, in order:   *)
(*   illegalRe          each of  / ? < > \ : * | "                         *)
(*   controlRe          each control character                             *)
(*   reservedRe         a name made only of dots, as a whole               *)
(*   windowsReservedRe  con, prn, aux, nul, com0-9, lpt0-9, alone or       *)
(*                      followed by a dot and anything, case-insensitive,  *)
(*                      as a whole                                         *)
(*   windowsTrailingRe  the trailing run of dots and spaces                *)
(* by the replacement, and truncates the result to 255 bytes; with a       *)
(* non-empty replacement the output goes through a second pass whose       *)
(* replacement is the empty string.                                        *)
(***************************************************************************)
illegalChars == {"/", "?", "<", ">", "\\", ":", "*", "|", "\""}
controlChars == {"NUL"}
Digits == {"0", "1", "2", "3", "4", "5", "6", "7", "8", "9"}

windowsReservedNames ==
  { <<"c","o","n">>, <<"p","r","n">>, <<"a","u","x">>, <<"n","u","l">> }
  \cup { <<"c","o","m",d>> : d \in Digits }
  \cup { <<"l","p","t",d>> : d \in Digits }

RECURSIVE replaceChars(_, _, _)
replaceChars(s, bad, repl) ==
  IF s = << >> THEN << >>
  ELSE (IF Head(s) \in bad THEN repl ELSE << Head(s) >>)
         \o replaceChars(Tail(s), bad, repl)

allDots(s) == s # << >> /\ \A i \in 1..Len(s) : s[i] = "."

replaceReserved(s, repl) == IF allDots(s) THEN repl ELSE s

isWindowsReserved(s) ==
  \E n \in 3..4 :
    /\ Len(s) >= n
    /\ toLowerCase(SubSeq(s, 1, n)) \in windowsReservedNames
    /\ (Len(s) = n \/ s[n + 1] = ".")

replaceWindowsReserved(s, repl) == IF isWindowsReserved(s) THEN repl ELSE s

\* length of s without its longest suffix of dots and spaces
RECURSIVE trimmedLen(_, _)
trimmedLen(s, n) ==
  IF n = 0 THEN 0
  ELSE IF s[n] \in {".", " "} THEN trimmedLen(s, n - 1)
  ELSE n

replaceTrailing(s, repl) ==
  LET n == trimmedLen(s, Len(s)) IN
  IF n = Len(s) THEN s ELSE SubSeq(s, 1, n) \o repl

truncate(s) == SubSeq(s, 1, Min(Len(s), 255))

sanitizePass(input, repl) ==
  truncate(
    replaceTrailing(
      replaceWindowsReserved(
        replaceReserved(
          replaceChars(replaceChars(input, illegalChars, repl),
                       controlChars, repl),
          repl),
        repl),
      repl))

sanitize(input) == sanitizePass(sanitizePass(input, << "_" >>), << >>)

(***************************************************************************)
(* ZipHandler.sanitizeFilePath                                             *)
(***************************************************************************)
FallbackName ==
  << "s","a","n","i","t","i","z","e","d","_","f","i","l","e" >>

\* line 224 without its filter
keepComponent_All(c) == TRUE

\* line 224: filter(c => c && c !== '.' && c !== '..')
keepComponent(c) == c # << >> /\ c # << "." >> /\ c # << ".", "." >>

sanitizeFilePath(filePath) ==
  LET parts      == split(filePath)
      components == [i \in 1..Len(parts) |-> sanitize(parts[i])]
      sanitized  == join(SelectSeq(components, keepComponent))
  IN  IF sanitized = << >> THEN FallbackName ELSE sanitized

(***************************************************************************)
(* Paths (node's path module, POSIX flavour).  A resolved path is the      *)
(* sequence of its segments below "/".                                     *)
(***************************************************************************)
RECURSIVE normalizeSegs(_, _)
normalizeSegs(acc, segs) ==
  IF segs = << >> THEN acc
  ELSE LET seg == Head(segs) IN
       IF seg = << >> \/ seg = << "." >>
       THEN normalizeSegs(acc, Tail(segs))
       ELSE IF seg = << ".", "." >>
       THEN normalizeSegs(IF acc = << >> THEN acc
                          ELSE SubSeq(acc, 1, Len(acc) - 1), Tail(segs))
       ELSE normalizeSegs(Append(acc, seg), Tail(segs))

\* process.cwd()
Cwd == << << "w" >> >>
DataDir == Cwd \o << << "d","a","t","a" >> >>

\* path.resolve(process.cwd(), 'data', extractTo): an absolute last argument
\* discards the ones before it
pathResolve(extractTo) ==
  IF startsWith(extractTo, << "/" >>)
  THEN normalizeSegs(<< >>, split(extractTo))
  ELSE normalizeSegs(DataDir, split(extractTo))

\* path.join(extractPath, sanitizedPath)
pathJoin(base, rel) == normalizeSegs(base, split(rel))

\* path.dirname of a resolved path
dirname(p) == IF p = << >> THEN p ELSE SubSeq(p, 1, Len(p) - 1)

\* the resolved path p lies strictly below the resolved directory root
IsUnder(p, root) == Len(p) > Len(root) /\ SubSeq(p, 1, Len(root)) = root

\* path.basename of a string: its last non-empty segment
basename(s) ==
  LET segs == SelectSeq(split(s), LAMBDA x : x # << >>) IN
  IF segs = << >> THEN << >> ELSE segs[Len(segs)]

\* index of the last "." of s, 0 when there is none
RECURSIVE LastDot(_, _)
LastDot(s, i) ==
  IF i = 0 THEN 0
  ELSE IF s[i] = "." THEN i
  ELSE LastDot(s, i - 1)

\* path.extname: from the last "." of the basename, "" when there is none
\* or when the basename starts with its only "."
extname(s) ==
  LET b == basename(s)
      k == LastDot(b, Len(b))
  IN  IF k <= 1 \/ b = << ".", "." >> THEN << >> ELSE SubSeq(b, k, Len(b))

(***************************************************************************)
(* The filesystem: the set of directories and the content of each regular  *)
(* file.  A content is [from, len]: the archive member it was written      *)
(* from (0 for a file that was there before the call) and its byte length. *)
(***************************************************************************)
Prefixes(p) == { SubSeq(p, 1, n) : n \in 0..Len(p) }

existsSync(d, f, p) == p \in d \/ p \in DOMAIN f

\* fs.mkdirSync(p, { recursive: true }) throws when a prefix is a file
mkdirThrows(f, p) == \E q \in Prefixes(p) : q \in DOMAIN f

mkdirSync(d, p) == d \cup Prefixes(p)

\* fs.writeFileSync throws EISDIR on a directory and ENOTDIR / ENOENT
\* when the parent is not a directory
writeThrows(d, p) == p \in d \/ dirname(p) \notin d

(***************************************************************************)
(* SecurityValidator.validateFile                                          *)
(* An uploaded file is [path, exists, size, mime, readable]: mime is the   *)
(* type fileTypeFromBuffer sniffs (Null when it recognises none), and      *)
(* readable is FALSE when readFileSync throws.                             *)
(***************************************************************************)
allowedMimeTypes == { "application/zip", "application/x-zip-compressed" }

\* dangerousPatterns: .. , leading slashes, backslash, \0, <script, javascript:
dangerousPattern(fileName) ==
  \/ includes(fileName, << ".", "." >>)
  \/ startsWith(fileName, << "/" >>)
  \/ includes(fileName, << "\\" >>)
  \/ includes(fileName, << "NUL" >>)
  \/ includes(toLowerCase(fileName), << "<","s","c","r","i","p","t" >>)
  \/ includes(toLowerCase(fileName),
              << "j","a","v","a","s","c","r","i","p","t",":" >>)

Invalid(reason, details) ==
  [isValid |-> FALSE, reason |-> reason, details |-> details]
Valid == [isValid |-> TRUE, reason |-> Null, details |-> << >>]

\* validateFile with the content type sniffed before the size is compared
validateFile_TypeBeforeSize(file) ==
  IF ~file.exists THEN Invalid("File does not exist", << >>)
  ELSE IF ~file.readable
  THEN Invalid("Security validation failed", << "error" >>)
  ELSE IF file.mime \notin allowedMimeTypes
  THEN Invalid("Invalid file type", << "detectedType", "allowedTypes" >>)
  ELSE IF file.size > maxFileSize
  THEN Invalid("File size exceeds maximum allowed size",
               << "actualSize", "maxSize" >>)
  ELSE IF dangerousPattern(basename(file.path))
  THEN Invalid("Filename contains dangerous patterns", << "pattern" >>)
  ELSE Valid

\* lines 24-81: existsSync, statSync, readFileSync (which may throw into the
\* catch of lines 69-80), fileTypeFromBuffer, the patterns on the basename
validateFile(file) ==
  IF ~file.exists THEN Invalid("File does not exist", << >>)
  ELSE IF file.size > maxFileSize
  THEN Invalid("File size exceeds maximum allowed size",
               << "actualSize", "maxSize" >>)
  ELSE IF ~file.readable
  THEN Invalid("Security validation failed", << "error" >>)
  ELSE IF file.mime \notin allowedMimeTypes
  THEN Invalid("Invalid file type", << "detectedType", "allowedTypes" >>)
  ELSE IF dangerousPattern(basename(file.path))
  THEN Invalid("Filename contains dangerous patterns", << "pattern" >>)
  ELSE Valid

(***************************************************************************)
(* ZipHandler.validateZipContents / validateZipEntry                       *)
(* An archive member is [entryName, isDirectory, size, compressedSize,     *)
(* dataLen, readable]: size and compressedSize are the header's declared   *)
(* sizes, dataLen the length of the buffer getData() returns, readable is  *)
(* FALSE when getData() throws.  An archive is [entries, pad]: the listed  *)
(* members followed by pad empty directory members.                        *)
(***************************************************************************)
allowedExtensions ==
  { << ".","j","s" >>, << ".","t","s" >>, << ".","j","s","o","n" >>,
    << ".","m","d" >>, << ".","t","x","t" >>, << ".","y","m","l" >>,
    << ".","y","a","m","l" >>, << ".","c","s","v" >>, << ".","x","m","l" >> }

entryCount(zip) == Len(zip.entries) + zip.pad

RECURSIVE SumOver(_, _)
SumOver(entries, field) ==
  IF entries = << >> THEN 0
  ELSE (IF Head(entries).isDirectory THEN 0 ELSE Head(entries)[field])
       + SumOver(Tail(entries), field)

\* the ratio test with >= in place of >
ratioExceeds_Inclusive(u, c) ==
  IF c = 0 THEN u > 0 ELSE u \div maxRatio >= c

\* totalUncompressedSize / totalCompressedSize > 100 in IEEE arithmetic:
\* x/0 is Infinity for x > 0 and 0/0 is NaN, which compares false;
\* u > maxRatio * c is computed by division to stay within 32-bit integers
ratioExceeds(u, c) ==
  IF c = 0 THEN u > 0
  ELSE \/ u \div maxRatio > c
       \/ (u \div maxRatio = c /\ u % maxRatio > 0)

\* validateZipContents without the compression ratio test of lines 182-185
validateZipContents_NoRatio(zip) ==
  IF entryCount(zip) = 0 THEN Invalid("ZIP file is empty", << >>)
  ELSE IF entryCount(zip) > maxFiles
  THEN Invalid("ZIP contains too many files", << >>)
  ELSE IF SumOver(zip.entries, "size") > maxExtractedSize
  THEN Invalid("Total uncompressed size exceeds limit", << >>)
  ELSE Valid

validateZipContents(zip) ==
  LET totalUncompressedSize == SumOver(zip.entries, "size")
      totalCompressedSize   == SumOver(zip.entries, "compressedSize")
  IN  IF entryCount(zip) = 0 THEN Invalid("ZIP file is empty", << >>)
      ELSE IF entryCount(zip) > maxFiles
      THEN Invalid("ZIP contains too many files", << >>)
      ELSE IF ratioExceeds(totalUncompressedSize, totalCompressedSize)
      THEN Invalid("Suspicious compression ratio (possible zip bomb)", << >>)
      ELSE IF totalUncompressedSize > maxExtractedSize
      THEN Invalid("Total uncompressed size exceeds limit", << >>)
      ELSE Valid

\* the check of line 198 without its backslash test
pathTraversal_NoBackslash(entryName) ==
  \/ includes(entryName, << ".", "." >>)
  \/ startsWith(entryName, << "/" >>)

pathTraversal(entryName) ==
  \/ includes(entryName, << ".", "." >>)
  \/ includes(entryName, << "\\" >>)
  \/ startsWith(entryName, << "/" >>)

\* validateZipEntry without the toLowerCase() of line 203
validateZipEntry_CaseSensitive(entry) ==
  LET ext == extname(entry.entryName) IN
  IF pathTraversal(entry.entryName)
  THEN Invalid("Path traversal attempt detected", << >>)
  ELSE IF ext # << >> /\ ext \notin allowedExtensions
  THEN Invalid("File type not allowed", << >>)
  ELSE IF entry.size > maxEntrySize
  THEN Invalid("File too large", << >>)
  ELSE Valid

validateZipEntry(entry) ==
  LET ext == toLowerCase(extname(entry.entryName)) IN
  IF pathTraversal(entry.entryName)
  THEN Invalid("Path traversal attempt detected", << >>)
  ELSE IF ext # << >> /\ ext \notin allowedExtensions
  THEN Invalid("File type not allowed", << >>)
  ELSE IF entry.size > maxEntrySize
  THEN Invalid("File too large", << >>)
  ELSE Valid

(***************************************************************************)
(* Inputs                                                                  *)
(***************************************************************************)
File(p, ex, sz, m, rd) ==
  [path |-> p, exists |-> ex, size |-> sz, mime |-> m, readable |-> rd]

UploadPath == << "/","u","/","a",".","z","i","p" >>

UploadedFiles ==
  { File(UploadPath, TRUE, maxFileSize, "application/zip", TRUE),
    File(UploadPath, FALSE, 0, Null, FALSE),
    File(UploadPath, TRUE, maxFileSize + 1, "application/zip", TRUE),
    File(UploadPath, TRUE, 1, "image/png", TRUE),
    File(UploadPath, TRUE, 1, Null, TRUE),
    File(UploadPath, TRUE, 1, "application/zip", FALSE),
    File(<< "/","u","/","a",".",".","z" >>, TRUE, 1, "application/zip", TRUE) }

NoFile == File(<< >>, FALSE, 0, Null, FALSE)

Entry(n, dir, sz, csz, dl, rd) ==
  [entryName |-> n, isDirectory |-> dir, size |-> sz,
   compressedSize |-> csz, dataLen |-> dl, readable |-> rd]

NotesMd == << "n",".","m","d" >>

Entries ==
  { Entry(NotesMd, FALSE, 50, 25, 50, TRUE),
    Entry(<< ".",".","/","e" >>, FALSE, 10, 10, 10, TRUE),
    Entry(<< "/","e" >>, FALSE, 10, 10, 10, TRUE),
    Entry(<< "a","\\","b" >>, FALSE, 10, 10, 10, TRUE),
    Entry(<< "d" >>, FALSE, 5, 5, 5, TRUE),
    Entry(<< "d","/","e","/","f",".","m","d" >>, FALSE, 5, 5, 5, TRUE),
    Entry(<< "d","/" >>, TRUE, 0, 0, 0, TRUE),
    Entry(<< "a",".","e","x","e" >>, FALSE, 10, 10, 10, TRUE),
    Entry(<< "?",".","M","D" >>, FALSE, 8, 8, 8, TRUE),
    Entry(<< "b",".","t","x","t" >>, FALSE, 1, 1, maxExtractedSize + 1, TRUE),
    Entry(<< "h",".","j","s" >>, FALSE, maxEntrySize + 1, maxEntrySize + 1,
          maxEntrySize + 1, TRUE),
    Entry(<< "z",".","j","s" >>, FALSE, 101, 1, 101, TRUE),
    Entry(<< "g",".","c","s","v" >>, FALSE, maxExtractedSize + 1,
          maxExtractedSize, maxExtractedSize + 1, TRUE),
    Entry(<< "u",".","m","d" >>, FALSE, 6, 6, 6, FALSE) }

EntrySeqs == UNION { [1..n -> Entries] : n \in 0..MaxEntries }

\* pad = maxFiles - 1: one listed member makes exactly maxFiles members
Archives == { [entries |-> es, pad |-> pd] :
                es \in EntrySeqs, pd \in {0, maxFiles - 1} }

NoZip == [entries |-> << >>, pad |-> 0]

\* extract_to: 'ex', '../o', '/t'
ExtractTos == { << "e","x" >>, << ".",".","/","o" >>, << "/","t" >> }

OldContent == [from |-> 0, len |-> 7]

\* the filesystem before the call: empty, or an earlier extraction to 'ex'
\* left notes.md and the file d there
Filesystems ==
  { [dirs |-> Prefixes(Cwd), files |-> << >>],
    [dirs |-> Prefixes(DataDir \o << << "e","x" >> >>),
     files |-> (DataDir \o << << "e","x" >>, NotesMd >>) :> OldContent
            @@ (DataDir \o << << "e","x" >>, << "d" >> >>) :> OldContent] }

(***************************************************************************)
(* State                                                                   *)
(***************************************************************************)
VARIABLES
  pc,             \* position of the extractZip call
  file,           \* args.file_path: the uploaded file
  extractTo,      \* args.extract_to
  overwrite,      \* args.options.overwrite
  dirs, files,    \* the filesystem
  fs0,            \* the filesystem when the call started
  gate,           \* securityResult
  extractPath,    \* performExtraction: extractPath
  zip,            \* performExtraction: the archive read by new AdmZip
  opened,         \* new AdmZip(zipPath) has been evaluated
  validationResult, \* performExtraction: validationResult
  idx,            \* performExtraction: position of the for loop
  extractedFiles, \* performExtraction: extractedFiles
  warnings,       \* performExtraction: warnings
  totalSize,      \* performExtraction: totalSize
  written,        \* positions of the members written, in order
  warned,         \* positions of the members warned about, in order
  trippedAt,      \* position at which line 143 first threw, 0 if it has not
  result,         \* the ToolResult returned
  sanPc, sanIn, sanOut, sanOut2, \* applications of sanitizeFilePath
  contexts,       \* ContextManager.contexts, in insertion order of the Map
  contextsFile,   \* data/contexts.json: the JSON array last written
  writable,       \* a write of data/contexts.json succeeds
  now,            \* the clock read by new Date(), in milliseconds
  call,           \* the last call of the ContextManager and what it returned
  caller,         \* the entry point that answered the extractZip call
  valPc, valIn, valOut  \* applications of the two archive validators

callVars == << file, extractTo, overwrite, fs0 >>
fsVars   == << dirs, files >>
loopVars == << idx, extractedFiles, warnings, totalSize, written, warned,
               trippedAt >>
sanVars  == << sanPc, sanIn, sanOut, sanOut2 >>
zipVars  == << zip, opened, validationResult >>
ctxVars  == << contexts, contextsFile, writable, now, call >>
valVars  == << valPc, valIn, valOut >>
auxVars  == << ctxVars, caller, valVars >>
extractVars == << pc, callVars, fsVars, gate, extractPath, zipVars, loopVars,
                  result >>
vars == << extractVars, sanVars, auxVars >>

NoResult == [success |-> FALSE, message |-> << "none" >>, hasData |-> FALSE]
NoGate   == [isValid |-> FALSE, reason |-> Null, details |-> << >>]

ExtractIdle ==
  /\ pc = "idle"
  /\ file = NoFile /\ extractTo = << >> /\ overwrite = FALSE
  /\ gate = NoGate /\ extractPath = << >> /\ zip = NoZip /\ opened = FALSE
  /\ validationResult = NoGate
  /\ idx = 0 /\ extractedFiles = << >> /\ warnings = << >> /\ totalSize = 0
  /\ written = << >> /\ warned = << >> /\ trippedAt = 0
  /\ result = NoResult

SanIdle == sanPc = "idle" /\ sanIn = << >> /\ sanOut = << >> /\ sanOut2 = << >>

NoCall ==
  [op |-> "none", args |-> << >>, prior |-> << >>, returned |-> [none |-> TRUE]]

CtxIdle ==
  /\ contexts = << >> /\ contextsFile = None /\ writable = TRUE
  /\ now = 0 /\ call = NoCall
  /\ caller = "none"

ValIdle == valPc = "idle" /\ valIn = NoZip /\ valOut = NoGate

Init ==
  /\ ExtractIdle
  /\ \E fs \in Filesystems : dirs = fs.dirs /\ files = fs.files /\ fs0 = fs
  /\ SanIdle /\ CtxIdle /\ ValIdle

(***************************************************************************)
(* ZipHandler.extractZip                                                   *)
(***************************************************************************)
Return(success, message, hasData) ==
  /\ result' = [success |-> success, message |-> message, hasData |-> hasData]
  /\ pc' = "done"

\* the call, with its arguments
ExtractZip_Call ==
  /\ pc = "idle"
  /\ \E f \in UploadedFiles, e \in ExtractTos, o \in BOOLEAN :
       /\ file' = f /\ extractTo' = e /\ overwrite' = o
  /\ pc' = "called"
  /\ UNCHANGED << fs0, fsVars, gate, extractPath, zipVars, loopVars,
                  result, sanVars, auxVars >>

\* lines 25-31: if (!fs.existsSync(file_path)) return File not found
ExtractZip_NotFound ==
  /\ pc = "called"
  /\ ~file.exists
  /\ Return(FALSE, << "File not found" >>, FALSE)
  /\ UNCHANGED << callVars, fsVars, gate, extractPath, zipVars, loopVars,
                  sanVars, auxVars >>

\* lines 34-45 without the return of lines 40-44
ExtractZip_Security_NoReturn ==
  /\ pc = "called"
  /\ file.exists
  /\ gate' = validateFile(file)
  /\ pc' = "perform"
  /\ UNCHANGED << callVars, fsVars, extractPath, zipVars, loopVars, result,
                  sanVars, auxVars >>

\* lines 34-45: securityValidator.validateFile, return on failure
ExtractZip_Security ==
  /\ pc = "called"
  /\ file.exists
  /\ gate' = validateFile(file)
  /\ IF gate'.isValid
     THEN pc' = "perform" /\ UNCHANGED result
     ELSE Return(FALSE, << "Security validation failed", gate'.reason >>, FALSE)
  /\ UNCHANGED << callVars, fsVars, extractPath, zipVars, loopVars,
                  sanVars, auxVars >>

(***************************************************************************)
(* ZipHandler.performExtraction.  An exception that leaves it is caught    *)
(* by extractZip (lines 63-75), which returns success:false with the       *)
(* error's message and no data.                                            *)
(***************************************************************************)
Throw(message) == Return(FALSE, << "Extraction failed", message >>, FALSE)

\* lines 89-92: resolve and create the extraction directory
PerformExtraction_Mkdir ==
  /\ pc = "perform"
  /\ extractPath' = pathResolve(extractTo)
  /\ IF existsSync(dirs, files, extractPath')
     THEN pc' = "open" /\ UNCHANGED << dirs, result >>
     ELSE IF mkdirThrows(files, extractPath')
     THEN Throw("ENOTDIR") /\ UNCHANGED dirs
     ELSE /\ dirs' = mkdirSync(dirs, extractPath')
          /\ pc' = "open" /\ UNCHANGED result
  /\ UNCHANGED << callVars, files, gate, zipVars, loopVars, sanVars, auxVars >>

\* lines 95-102: new AdmZip(zipPath), getEntries, validateZipContents
PerformExtraction_Open ==
  /\ pc = "open"
  /\ \E z \in Archives : zip' = z
  /\ opened' = TRUE
  /\ validationResult' = validateZipContents(zip')
  /\ IF validationResult'.isValid
     THEN pc' = "loop" /\ idx' = 1 /\ UNCHANGED result
     ELSE Throw(validationResult'.reason) /\ UNCHANGED idx
  /\ UNCHANGED << callVars, fsVars, gate, extractPath, extractedFiles,
                  warnings, totalSize, written, warned, trippedAt, sanVars,
                  auxVars >>

\* line 95: new AdmZip(zipPath) throws on a file that is no readable archive
PerformExtraction_OpenThrows ==
  /\ pc = "open"
  /\ opened' = TRUE
  /\ Throw("Invalid or unsupported zip format")
  /\ UNCHANGED << callVars, fsVars, gate, extractPath, zip, validationResult,
                  loopVars, sanVars, auxVars >>

InLoop == pc = "loop" /\ idx <= Len(zip.entries)
entry == zip.entries[idx]
sanitizedPath == sanitizeFilePath(entry.entryName)
outputPath == pathJoin(extractPath, sanitizedPath)
outputDir == dirname(outputPath)

Warning(kind, reason) == << kind, entry.entryName, reason >>

Warn(kind, reason) ==
  /\ warnings' = Append(warnings, Warning(kind, reason))
  /\ warned' = Append(warned, idx)

\* line 122 without its overwrite test
skipExisting_IgnoreOverwrite(d, f, p, ow) == existsSync(d, f, p)

\* line 122: the destination exists and overwrite is off
skipExisting(d, f, p, ow) == existsSync(d, f, p) /\ ~ow

\* line 139 counting the declared size instead of data.length
addSize_Declared(total, e) == total + e.size

\* line 139: totalSize += data.length
addSize(total, e) == total + e.dataLen

\* line 142: totalSize > this.maxExtractedSize
overBudget(total) == total > maxExtractedSize

\* lines 106-108: a directory member is skipped
Loop_SkipDirectory ==
  /\ InLoop
  /\ entry.isDirectory
  /\ idx' = idx + 1
  /\ UNCHANGED << pc, callVars, fsVars, gate, extractPath, zipVars,
                  extractedFiles, warnings, totalSize, written, warned,
                  trippedAt, result, sanVars, auxVars >>

\* lines 106-108 for the pad directory members that end the archive:
\* each iteration only continues, so the run is taken in one step
Loop_SkipPadding ==
  /\ pc = "loop"
  /\ idx = Len(zip.entries) + 1
  /\ zip.pad > 0
  /\ idx' = idx + zip.pad
  /\ UNCHANGED << pc, callVars, fsVars, gate, extractPath, zipVars,
                  extractedFiles, warnings, totalSize, written, warned,
                  trippedAt, result, sanVars, auxVars >>

\* lines 111-115: validateZipEntry fails, warn and continue
Loop_RejectEntry ==
  /\ InLoop
  /\ ~entry.isDirectory
  /\ ~validateZipEntry(entry).isValid
  /\ Warn("Skipped", validateZipEntry(entry).reason)
  /\ idx' = idx + 1
  /\ UNCHANGED << pc, callVars, fsVars, gate, extractPath, zipVars,
                  extractedFiles, totalSize, written, trippedAt, result,
                  sanVars, auxVars >>

\* lines 118-125: the destination exists and overwrite is off
Loop_SkipExisting ==
  /\ InLoop
  /\ ~entry.isDirectory
  /\ validateZipEntry(entry).isValid
  /\ skipExisting(dirs, files, outputPath, overwrite)
  /\ Warn("Skipped", "File already exists")
  /\ idx' = idx + 1
  /\ UNCHANGED << pc, callVars, fsVars, gate, extractPath, zipVars,
                  extractedFiles, totalSize, written, trippedAt, result,
                  sanVars, auxVars >>

\* lines 128-131: mkdirSync throws outside the try block of lines 134-147
Loop_MkdirThrows ==
  /\ InLoop
  /\ ~entry.isDirectory
  /\ validateZipEntry(entry).isValid
  /\ ~skipExisting(dirs, files, outputPath, overwrite)
  /\ ~existsSync(dirs, files, outputDir)
  /\ mkdirThrows(files, outputDir)
  /\ Throw("ENOTDIR")
  /\ UNCHANGED << callVars, fsVars, gate, extractPath, zipVars, loopVars,
                  sanVars, auxVars >>

\* lines 128-147: create the parent directory, read and write the member,
\* count it, check the budget; the catch turns any throw into a warning
Loop_Extract ==
  /\ InLoop
  /\ ~entry.isDirectory
  /\ validateZipEntry(entry).isValid
  /\ ~skipExisting(dirs, files, outputPath, overwrite)
  /\ existsSync(dirs, files, outputDir) \/ ~mkdirThrows(files, outputDir)
  /\ dirs' = IF existsSync(dirs, files, outputDir) THEN dirs
             ELSE mkdirSync(dirs, outputDir)
  /\ IF ~entry.readable
     THEN /\ Warn("Failed to extract", "getData failed")
          /\ UNCHANGED << files, extractedFiles, totalSize, written,
                          trippedAt >>
     ELSE IF writeThrows(dirs', outputPath)
     THEN /\ Warn("Failed to extract", "writeFileSync failed")
          /\ UNCHANGED << files, extractedFiles, totalSize, written,
                          trippedAt >>
     ELSE /\ files' = (outputPath :> [from |-> idx, len |-> entry.dataLen])
                        @@ files
          /\ extractedFiles' = Append(extractedFiles, sanitizedPath)
          /\ written' = Append(written, idx)
          /\ totalSize' = addSize(totalSize, entry)
          /\ IF overBudget(totalSize')
             THEN /\ Warn("Failed to extract",
                          "Total extracted size exceeds limit")
                  /\ trippedAt' = IF trippedAt = 0 THEN idx ELSE trippedAt
             ELSE UNCHANGED << warnings, warned, trippedAt >>
  /\ idx' = idx + 1
  /\ UNCHANGED << pc, callVars, gate, extractPath, zipVars, result,
                  sanVars, auxVars >>

\* lines 150-158 and 57-62: the loop is over, return the outcome
PerformExtraction_Return ==
  /\ pc = "loop"
  /\ idx > entryCount(zip)
  /\ Return(TRUE, << "Successfully extracted", Len(extractedFiles) >>, TRUE)
  /\ UNCHANGED << callVars, fsVars, gate, extractPath, zipVars, loopVars,
                  sanVars, auxVars >>

Next ==
  \/ ExtractZip_Call
  \/ ExtractZip_NotFound
  \/ ExtractZip_Security
  \/ PerformExtraction_Mkdir
  \/ PerformExtraction_Open
  \/ PerformExtraction_OpenThrows
  \/ Loop_SkipDirectory
  \/ Loop_SkipPadding
  \/ Loop_RejectEntry
  \/ Loop_SkipExisting
  \/ Loop_MkdirThrows
  \/ Loop_Extract
  \/ PerformExtraction_Return

Spec == Init /\ [][Next]_vars

(***************************************************************************)
(* sanitizeFilePath as a function: applied to a string, then to its own    *)
(* result                                                                  *)
(***************************************************************************)
SanChars == { "a", ".", "/", "\\", "?", " ", "NUL", "c", "o", "n" }

SanInputs == UNION { [1..n -> SanChars] : n \in 0..MaxNameLen }

SanInit ==
  /\ ExtractIdle
  /\ dirs = Prefixes(Cwd) /\ files = << >>
  /\ fs0 = [dirs |-> Prefixes(Cwd), files |-> << >>]
  /\ sanPc = "in" /\ sanIn \in SanInputs
  /\ sanOut = << >> /\ sanOut2 = << >>
  /\ CtxIdle /\ ValIdle

San_Apply ==
  /\ sanPc = "in"
  /\ sanOut' = sanitizeFilePath(sanIn)
  /\ sanPc' = "once"
  /\ UNCHANGED << pc, callVars, fsVars, gate, extractPath, zipVars,
                  loopVars, result, sanIn, sanOut2, auxVars >>

San_Reapply ==
  /\ sanPc = "once"
  /\ sanOut2' = sanitizeFilePath(sanOut)
  /\ sanPc' = "twice"
  /\ UNCHANGED << pc, callVars, fsVars, gate, extractPath, zipVars,
                  loopVars, result, sanIn, sanOut, auxVars >>

SanNext == San_Apply \/ San_Reapply

SanSpec == SanInit /\ [][SanNext]_vars

(***************************************************************************)
(* Lines 119-136 of performExtraction as a function of the sanitized path  *)
(* they are handed: join, existence test, mkdir, write                     *)
(***************************************************************************)
JoinInit ==
  /\ pc = "loop"
  /\ file = NoFile /\ extractTo = << "e","x" >> /\ overwrite = FALSE
  /\ extractPath = pathResolve(extractTo)
  /\ dirs = Prefixes(extractPath) /\ files = << >>
  /\ fs0 = [dirs |-> dirs, files |-> files]
  /\ gate = Valid /\ zip = NoZip /\ opened = TRUE /\ validationResult = Valid
  /\ idx = 1 /\ extractedFiles = << >> /\ warnings = << >> /\ totalSize = 0
  /\ written = << >> /\ warned = << >> /\ trippedAt = 0
  /\ result = NoResult
  /\ sanPc = "given" /\ sanIn = << >> /\ sanOut \in SanInputs
  /\ sanOut2 = << >>
  /\ CtxIdle /\ ValIdle

Join_Write ==
  /\ sanPc = "given"
  /\ LET out == pathJoin(extractPath, sanOut)
         dir == dirname(out) IN
     IF skipExisting(dirs, files, out, overwrite)
     THEN sanPc' = "skipped" /\ UNCHANGED << fsVars, extractedFiles, written >>
     ELSE IF ~existsSync(dirs, files, dir) /\ mkdirThrows(files, dir)
     THEN sanPc' = "threw" /\ UNCHANGED << fsVars, extractedFiles, written >>
     ELSE /\ dirs' = IF existsSync(dirs, files, dir) THEN dirs
                     ELSE mkdirSync(dirs, dir)
          /\ IF writeThrows(dirs', out)
             THEN /\ sanPc' = "failed"
                  /\ UNCHANGED << files, extractedFiles, written >>
             ELSE /\ files' = (out :> [from |-> idx, len |-> 1]) @@ files
                  /\ extractedFiles' = Append(extractedFiles, sanOut)
                  /\ written' = Append(written, idx)
                  /\ sanPc' = "written"
  /\ UNCHANGED << pc, callVars, gate, extractPath, zipVars, idx, warnings,
                  totalSize, warned, trippedAt, result, sanIn, sanOut,
                  sanOut2, auxVars >>

JoinSpec == JoinInit /\ [][Join_Write]_vars

(***************************************************************************)
(* ContextManager (mcp/tools/contextManager.ts)                            *)
(*                                                                         *)
(* A value that may be undefined is << >> when undefined and << v >> when  *)
(* it is v.  A timestamp is the millisecond count its ISO string denotes.  *)
(* Every method runs to completion without an await, so each call is one   *)
(* step.                                                                   *)
(***************************************************************************)
\* largest number of contexts created after the store was loaded
MaxContexts == 1
\* last tick of the clock
MaxClock == 1

Some(v) == << v >>

\* the values uuidv4() may return, and the ids a caller may quote: 0 is the
\* id of the record of an earlier run, MaxContexts + 1 is never returned
Uuids == 1..MaxContexts
Ids == 0..(MaxContexts + 1)
\* arguments of createContext as the load-zip route passes them:
\* originalname, 'zip', size, number of extracted files
CreateArgs == { << << "P","a" >>, "zip", 2048, Some(3) >> }
Reasons == { None, Some("ok") }

OptionalKeys == { "fileCount", "metadata" }
ItemKeys == { "id", "name", "type", "status", "created", "updated", "size",
              "fileCount", "metadata" }

\* JSON.stringify of a ContextItem: a property that is undefined is left out
stringifyItem(c) ==
  [ k \in { f \in ItemKeys : ~(f \in OptionalKeys /\ c[f] = None) } |->
      IF k \in OptionalKeys THEN c[k][1] ELSE c[k] ]

\* JSON.parse of one element, read as a ContextItem: a property that is
\* absent reads as undefined
parseItem(j) ==
  [ k \in ItemKeys |->
      IF k \in OptionalKeys
      THEN (IF k \in DOMAIN j THEN Some(j[k]) ELSE None)
      ELSE j[k] ]

stringify(cs) == [ i \in 1..Len(cs) |-> stringifyItem(cs[i]) ]

\* lines 137-147: the Map built from the file, empty when there is no file
loadContexts(f) ==
  IF f = None THEN << >> ELSE [ i \in 1..Len(f[1]) |-> parseItem(f[1][i]) ]

\* a save that creates the file and never rewrites it
saveContexts_CreateOnly(cs, f, ok) ==
  IF ok /\ f = None THEN Some(stringify(cs)) ELSE f

\* lines 149-156: writeFileSync of the whole array; an error is only logged
saveContexts(cs, f, ok) == IF ok THEN Some(stringify(cs)) ELSE f

\* a Map.get that falls back to the last record for an id it does not hold
indexOf_Fallback(cs, id) ==
  IF \E i \in 1..Len(cs) : cs[i].id = id
  THEN CHOOSE i \in 1..Len(cs) : cs[i].id = id
  ELSE Len(cs)

\* Map.get: position of the record of an id, 0 when there is none
indexOf(cs, id) ==
  IF \E i \in 1..Len(cs) : cs[i].id = id
  THEN CHOOSE i \in 1..Len(cs) : cs[i].id = id
  ELSE 0

\* lines 97-99; no code of the repository calls it
\* a set that adds an entry whether or not the key is held
set_Append(cs, id, c) == Append(cs, c)

\* lines 44 and 85: this.contexts.set(id, context).  A key the Map holds
\* keeps its place, a new key goes last.
set(cs, id, c) ==
  IF indexOf(cs, id) = 0 THEN Append(cs, c)
  ELSE [ cs EXCEPT ![indexOf(cs, id)] = c ]

getContext(cs, id) ==
  IF indexOf(cs, id) = 0 THEN None ELSE Some(cs[indexOf(cs, id)])

\* a record left in data/contexts.json by an earlier run of the server
\* lines 24, 55, 98 and 104-132: get, list and approve hand out the Map's
\* own objects (no copy is made, and markApproved assigns to the object in
\* place), so what the holder of an object returned as c reads from it is
\* the record the store holds under c.id
read(cs, c) == cs[indexOf(cs, c.id)]

StoredItem ==
  [ id |-> 0, name |-> << "a","b" >>, type |-> "file", status |-> "pending",
    created |-> 0, updated |-> 0, size |-> 7, fileCount |-> None,
    metadata |-> Some([ source |-> "cli" ]) ]

ContextsFiles == { None, Some(stringify(<< StoredItem >>)) }

\* a call of the ContextManager: its arguments (of markApproved the
\* context_id and the decision), the status its record had
\* when it started (undefined when it has no record) and what it returned,
\* as a record: the id of createContext, the ToolResult of markApproved,
\* { items, total } of getContexts
Call(op, args, prior, returned) ==
  [ op |-> op, args |-> args, prior |-> prior, returned |-> returned ]

ToolResult(success, message, data) ==
  [ success |-> success, message |-> message, data |-> data ]

\* constructor, lines 11-13: the store right after loadContexts().  For
\* the whole run data/contexts.json either can be written or cannot (the
\* data directory is missing or read-only).
CtxInit ==
  /\ ExtractIdle
  /\ dirs = Prefixes(Cwd) /\ files = << >>
  /\ fs0 = [dirs |-> Prefixes(Cwd), files |-> << >>]
  /\ SanIdle /\ ValIdle
  /\ caller = "none"
  /\ contextsFile \in ContextsFiles
  /\ contexts = loadContexts(contextsFile)
  /\ writable \in BOOLEAN
  /\ now = 0
  /\ call = NoCall

\* lines 72-95: createContext(name, type, size, fileCount).  The id is a
\* uuid no record uses: ids are only compared for equality, so the first
\* unused one stands for any of them.  created and updated are two reads of
\* the clock, which may tick between them; saveContexts swallows a failed
\* write.
CreateContext(name, type, size, fileCount) ==
  /\ \E id \in Uuids, tick \in 0..1 :
       LET context ==
             [ id |-> id, name |-> name, type |-> type, status |-> "pending",
               created |-> now, updated |-> now + tick, size |-> size,
               fileCount |-> fileCount, metadata |-> None ]
       IN
       /\ indexOf(contexts, id) = 0
       /\ \A u \in Uuids : u < id => indexOf(contexts, u) # 0
       /\ now + tick <= MaxClock
       /\ now' = now + tick
       /\ contexts' = set(contexts, id, context)
       /\ contextsFile' = saveContexts(contexts', contextsFile, writable)
       /\ UNCHANGED writable
       /\ call' = Call("createContext", << name, type, size, fileCount >>,
                       None, [id |-> id])

Ctx_Create ==
  /\ \E a \in CreateArgs : CreateContext(a[1], a[2], a[3], a[4])
  /\ UNCHANGED << extractVars, sanVars, caller, valVars >>

\* lines 37-42: { ...context.metadata, approvalReason: reason }
withApprovalReason(metadata, reason) ==
  LET old == IF metadata = None THEN << >> ELSE metadata[1] IN
  Some([ k \in DOMAIN old \cup { "approvalReason" } |->
           IF k = "approvalReason" THEN reason ELSE old[k] ])

\* line 34 with a refusal that puts the context back in the queue
statusOf_RejectToPending(approved) ==
  IF approved THEN "approved" ELSE "pending"

\* line 34 with the decision ignored
statusOf_AlwaysApproved(approved) == "approved"

\* line 34
statusOf(approved) == IF approved THEN "approved" ELSE "rejected"

\* lines 34-42 with the time assigned to created
updateStatus_TouchCreated(context, approved, reason, time) ==
  [ context EXCEPT
      !.status = statusOf(approved),
      !.created = time,
      !.metadata = IF reason # None /\ reason[1] # ""
                   THEN withApprovalReason(@, reason[1]) ELSE @ ]

\* lines 34-42: status, updated and, with a reason, metadata are assigned
updateStatus(context, approved, reason, time) ==
  [ context EXCEPT
      !.status = statusOf(approved),
      !.updated = time,
      !.metadata = IF reason # None /\ reason[1] # ""
                   THEN withApprovalReason(@, reason[1]) ELSE @ ]

\* lines 15-57: markApproved({context_id, approved, reason}).  An empty
\* reason is falsy and is treated as no reason.  Nothing in the try block
\* throws (saveContexts catches its own errors), so the catch of lines
\* 58-69 is never entered.
MarkApproved(context_id, approved, reason) ==
  LET i == indexOf(contexts, context_id)
      args == << context_id, approved >> IN
  IF i = 0
  THEN /\ call' = Call("markApproved", args, None,
                       ToolResult(FALSE, "Context not found", None))
       /\ UNCHANGED << contexts, contextsFile, writable, now >>
  ELSE LET context == updateStatus(contexts[i], approved, reason, now) IN
       /\ contexts' = set(contexts, context_id, context)
       /\ contextsFile' = saveContexts(contexts', contextsFile, writable)
       /\ call' = Call("markApproved", args, Some(contexts[i].status),
                       ToolResult(TRUE,
                                  IF approved
                                  THEN "Context approved successfully"
                                  ELSE "Context rejected successfully",
                                  Some(context)))
       /\ UNCHANGED << writable, now >>

Ctx_MarkApproved ==
  /\ \E id \in Ids, approved \in BOOLEAN, reason \in Reasons :
       MarkApproved(id, approved, reason)
  /\ UNCHANGED << extractVars, sanVars, caller, valVars >>

\* time passes between two calls
Ctx_Tick ==
  /\ now < MaxClock
  /\ now' = now + 1
  /\ UNCHANGED << extractVars, sanVars, contexts, contextsFile, writable,
                  call, caller, valVars >>

\* Array.prototype.sort by created, newest first; the sort is stable
RECURSIVE sortNewestFirst(_)
sortNewestFirst(s) ==
  IF s = << >> THEN << >>
  ELSE LET rest == sortNewestFirst(Tail(s))
           k == Cardinality({ i \in 1..Len(rest) :
                                rest[i].created > Head(s).created })
       IN SubSeq(rest, 1, k) \o << Head(s) >> \o SubSeq(rest, k + 1, Len(rest))

\* a slice that also takes the element at position to
slice_Inclusive(s, from, to) == SubSeq(s, from + 1, Min(to + 1, Len(s)))

\* Array.prototype.slice(from, to) for 0 <= from
slice(s, from, to) == SubSeq(s, from + 1, Min(to, Len(s)))

defaultLimit == 20

Filter(status, type, search, limit, offset) ==
  [ status |-> status, type |-> type, search |-> search, limit |-> limit,
    offset |-> offset ]

\* lines 101-135: getContexts(filter).  A property of the filter that is
\* undefined or falsy (an empty string, 0) is ignored or takes its default.
getContexts(cs, filter) ==
  LET byStatus ==
        IF filter.status # None /\ filter.status[1] # ""
           /\ filter.status[1] # "all"
        THEN SelectSeq(cs, LAMBDA c : c.status = filter.status[1]) ELSE cs
      byType ==
        IF filter.type # None /\ filter.type[1] # ""
           /\ filter.type[1] # "all"
        THEN SelectSeq(byStatus, LAMBDA c : c.type = filter.type[1])
        ELSE byStatus
      bySearch ==
        IF filter.search # None /\ filter.search[1] # << >>
        THEN SelectSeq(byType, LAMBDA c :
               includes(toLowerCase(c.name), toLowerCase(filter.search[1])))
        ELSE byType
      filteredContexts == sortNewestFirst(bySearch)
      offset == IF filter.offset # None THEN filter.offset[1] ELSE 0
      limit == IF filter.limit # None /\ filter.limit[1] # 0
               THEN filter.limit[1] ELSE defaultLimit
  IN [ items |-> slice(filteredContexts, offset, offset + limit),
       total |-> Len(filteredContexts) ]

\* the filter is undefined where the callers pass none (api/routes.ts /stats,
\* the snapshot manager)
NoFilter == Filter(None, None, None, None, None)

\* api/routes.ts, GET /context: the query after validateContextQuery, where
\* page >= 1 and 1 <= limit <= 100 (defaults 1 and 20), status and type
\* default to 'all'
Query(status, type, search, page, limit) ==
  Filter(Some(status), Some(type), search, Some(limit),
         Some((page - 1) * limit))

Filters ==
  { NoFilter } \cup
  { Query(st, ty, se, pg, lm) :
      st \in { "all", "pending", "approved", "rejected" },
      ty \in { "all", "zip" },
      se \in { None, Some(<< "A" >>), Some(<< "p" >>) },
      pg \in 1..2, lm \in { 1, 2, defaultLimit } }

\* the filters of the calls that are recorded
CalledFilters ==
  { NoFilter, Query("pending", "all", Some(<< "A" >>), 2, 1) }

\* one call of getContexts, recorded with what it returned
ListContexts(filter) ==
  call' = Call("getContexts",
               << filter.status, filter.type, filter.search,
                  filter.limit, filter.offset >>,
               None, getContexts(contexts, filter))

Ctx_GetContexts ==
  /\ \E filter \in CalledFilters : ListContexts(filter)
  /\ UNCHANGED << extractVars, sanVars, contexts, contextsFile, writable,
                  now, caller, valVars >>

CtxNext ==
  \/ Ctx_Create
  \/ Ctx_MarkApproved
  \/ Ctx_Tick
  \/ Ctx_GetContexts

CtxSpec == CtxInit /\ [][CtxNext]_vars

(***************************************************************************)
(* getContexts as a function of the store and the filter                   *)
(***************************************************************************)
\* the stores createContext and markApproved can leave: records appended in
\* the order of their creation, each one the stored record or an upload, in
\* any status
Stores ==
  LET upload == CHOOSE a \in CreateArgs : TRUE
      Item(i, shape) ==
        IF shape[1] = "stored"
        THEN [ StoredItem EXCEPT !.id = i, !.status = shape[2],
                                 !.created = shape[3], !.updated = shape[3] ]
        ELSE [ id |-> i, name |-> upload[1], type |-> upload[2],
               status |-> shape[2], created |-> shape[3],
               updated |-> shape[3], size |-> upload[3],
               fileCount |-> upload[4], metadata |-> None ]
      Shapes == { "stored", "upload" }
                  \X { "pending", "approved", "rejected" } \X (0..MaxClock)
      Orders == UNION { [ 1..n -> Shapes ] : n \in 0..(MaxContexts + 1) }
  IN { [ i \in DOMAIN o |-> Item(i, o[i]) ] :
         o \in { o \in Orders :
                   \A i \in 1..(Len(o) - 1) : o[i][3] <= o[i + 1][3] } }

ListInit ==
  /\ ExtractIdle
  /\ dirs = Prefixes(Cwd) /\ files = << >>
  /\ fs0 = [dirs |-> Prefixes(Cwd), files |-> << >>]
  /\ SanIdle /\ ValIdle
  /\ caller = "none"
  /\ contexts \in Stores
  /\ contextsFile = Some(stringify(contexts))
  /\ writable = TRUE
  /\ now = MaxClock
  /\ call = NoCall

\* api/routes.ts, GET /context: one query answered from the store
List_GetContexts ==
  /\ call = NoCall
  /\ \E filter \in Filters : ListContexts(filter)
  /\ UNCHANGED << extractVars, sanVars, contexts, contextsFile, writable,
                  now, caller, valVars >>

ListSpec == ListInit /\ [][List_GetContexts]_vars

(***************************************************************************)
(* The load-zip entry points: the HTTP route of api/routes.ts and the      *)
(* load_zip tool of mcp/mcpServer.ts, from the return of extractZip on     *)
(***************************************************************************)
\* req.file.originalname
OriginalName == << "P","a" >>

\* api/routes.ts, POST /mcp/tools/load-zip: if (result.success &&
\* result.data) createContext(originalname, 'zip', size, extracted count)
\* and answer with the contextId, else answer 400 with the result
Route_LoadZip ==
  /\ pc = "done"
  /\ IF result.success /\ result.hasData
     THEN CreateContext(OriginalName, "zip", file.size,
                        Some(Len(extractedFiles)))
     ELSE UNCHANGED ctxVars
  /\ pc' = "responded"
  /\ caller' = "http"
  /\ UNCHANGED << callVars, fsVars, gate, extractPath, zipVars, loopVars,
                  result, sanVars, valVars >>

\* mcp/mcpServer.ts: the handler of load_zip is extractZip itself; the
\* CallTool handler answers with its result
Tool_LoadZip ==
  /\ pc = "done"
  /\ pc' = "responded"
  /\ caller' = "mcp"
  /\ UNCHANGED << callVars, fsVars, gate, extractPath, zipVars, loopVars,
                  result, sanVars, ctxVars, valVars >>

IngestNext == Next \/ Route_LoadZip \/ Tool_LoadZip

IngestSpec == Init /\ [][IngestNext]_vars

(***************************************************************************)
(* validateZipContents, validateZipEntry and validateFile as functions of   *)
(* one archive, of one member and of one uploaded file                     *)
(***************************************************************************)
\* members by their sizes: 100/1 and maxExtractedSize/MiB are ratios of
\* exactly 100, an uncompressed total of maxExtractedSize is exactly at the
\* limit
SizedEntries ==
  { Entry(NotesMd, dir, sz, csz, sz, TRUE) :
      dir \in BOOLEAN,
      sz \in { 0, 100, 101, maxExtractedSize, maxExtractedSize + 1 },
      csz \in { 0, 1, MiB } }

SizedArchives ==
  { [entries |-> es, pad |-> pd] :
      es \in UNION { [1..n -> SizedEntries] : n \in 0..MaxEntries },
      pd \in { 0, maxFiles - 2, maxFiles - 1, maxFiles } }

\* members by their names and declared sizes
NamedEntries ==
  { Entry(stem \o end, FALSE, sz, 1, sz, TRUE) :
      stem \in { << "a" >>, << "d","/","a" >>, << ".",".","/","a" >>,
                 << "/","a" >>, << "a","\\","b" >>, << "a",".","." >>, << >> },
      end \in allowedExtensions \cup
              { << >>, << "." >>, << ".","M","D" >>, << ".","J","s","o","n" >>,
                << ".","e","x","e" >>, << ".","m","d","x" >>, << ".","m" >> },
      sz \in { 0, maxEntrySize, maxEntrySize + 1 } }

\* files given to validateFile: present or not, at and around the size
\* limit, of each sniffed type, readable or not, with a clean or a
\* hazardous base name ('a..z', '<Script') or a hazard in the directory only
GateFiles ==
  { File(<< "/","u","/" >> \o name, ex, sz, m, rd) :
      name \in { << "a",".","z","i","p" >>, << "a",".",".","z" >>,
                 << "<","S","c","r","i","p","t" >>,
                 << ".",".","/","a",".","z","i","p" >> },
      ex \in BOOLEAN, sz \in { 0, maxFileSize, maxFileSize + 1 },
      m \in allowedMimeTypes \cup { Null, "image/png" }, rd \in BOOLEAN }

ValInit ==
  /\ ExtractIdle
  /\ dirs = Prefixes(Cwd) /\ files = << >>
  /\ fs0 = [dirs |-> Prefixes(Cwd), files |-> << >>]
  /\ SanIdle /\ CtxIdle
  /\ \/ valPc = "archive" /\ valIn \in SizedArchives
     \/ valPc = "member" /\ valIn \in NamedEntries
     \/ valPc = "file" /\ valIn \in GateFiles
  /\ valOut = NoGate

Val_Contents ==
  /\ valPc = "archive"
  /\ valOut' = validateZipContents(valIn)
  /\ valPc' = "contents"
  /\ UNCHANGED << extractVars, sanVars, ctxVars, caller, valIn >>

Val_Entry ==
  /\ valPc = "member"
  /\ valOut' = validateZipEntry(valIn)
  /\ valPc' = "entry"
  /\ UNCHANGED << extractVars, sanVars, ctxVars, caller, valIn >>

Val_File ==
  /\ valPc = "file"
  /\ valOut' = validateFile(valIn)
  /\ valPc' = "gate"
  /\ UNCHANGED << extractVars, sanVars, ctxVars, caller, valIn >>

ValNext == Val_Contents \/ Val_Entry \/ Val_File

ValSpec == ValInit /\ [][ValNext]_vars

(***************************************************************************)
(* Properties                                                              *)
(***************************************************************************)
Range(f) == { f[k] : k \in DOMAIN f }
Done == pc = "done"

\* the members the loop has gone past
Processed == IF pc \in {"loop", "done"} /\ validationResult.isValid
             THEN { i \in 1..Len(zip.entries) : i < idx } ELSE {}

\* the raw name carries a traversal signal: "..", a backslash, a leading "/"
TraversalName(n) ==
  \/ \E i \in 1..(Len(n) - 1) : n[i] = "." /\ n[i + 1] = "."
  \/ \E i \in 1..Len(n) : n[i] = "\\"
  \/ (n # << >> /\ n[1] = "/")

\* the files the call has written
WrittenPaths == { p \in DOMAIN files : files[p].from > 0 }

\* C1: every processed non-directory member whose raw name contains "..",
\* a backslash or a leading "/" has a "Skipped" warning naming it and was
\* not written, and every file the call wrote lies under extractPath.
C1_TraversalSkipped ==
  /\ \A i \in Processed :
       (~zip.entries[i].isDirectory /\ TraversalName(zip.entries[i].entryName))
       => /\ i \notin Range(written)
          /\ \E k \in 1..Len(warned) :
               /\ warned[k] = i
               /\ warnings[k][1] = "Skipped"
               /\ warnings[k][2] = zip.entries[i].entryName
  /\ \A p \in WrittenPaths : IsUnder(p, extractPath)

\* a completed call that skipped a member named with a backslash and wrote
\* another member
C1_Witness ==
  /\ Done /\ result.success
  /\ written # << >>
  /\ \E i \in Processed : zip.entries[i].entryName = << "a", "\\", "b" >>

\* sums over the non-directory members, as the claim counts them
RECURSIVE Total(_, _)
Total(es, f) ==
  IF es = << >> THEN 0
  ELSE (IF es[1].isDirectory THEN 0 ELSE es[1][f]) + Total(Tail(es), f)

\* the reasons for which the archive must be refused
ContentsReasons(z) ==
  LET n == Len(z.entries) + z.pad
      u == Total(z.entries, "size")
      c == Total(z.entries, "compressedSize")
  IN  (IF n = 0 THEN { "ZIP file is empty" } ELSE {})
      \cup (IF n > 1000 THEN { "ZIP contains too many files" } ELSE {})
      \cup (IF u \div 100 > c \/ (u \div 100 = c /\ u % 100 # 0)
            THEN { "Suspicious compression ratio (possible zip bomb)" }
            ELSE {})
      \cup (IF u > 100 * MiB
            THEN { "Total uncompressed size exceeds limit" } ELSE {})

\* validateZipContents has run on the archive that was opened
ContentsChecked == validationResult # NoGate

\* C2: when the opened archive is empty, has more than 1000 members, an
\* aggregate ratio above 100 or an aggregate size above 100 MiB, the call
\* ends with success:false, a message citing one of these reasons, and no
\* member written.
C2_StructuralFailureWritesNothing ==
  (ContentsChecked /\ ContentsReasons(zip) # {})
  => /\ Done
     /\ ~result.success
     /\ result.message[1] = "Extraction failed"
     /\ result.message[2] \in ContentsReasons(zip)
     /\ written = << >>
     /\ files = fs0.files

\* a call refused for its compression ratio alone
C2_Witness ==
  /\ Done /\ ContentsChecked
  /\ ContentsReasons(zip)
       = { "Suspicious compression ratio (possible zip bomb)" }
  /\ ~result.success

\* C3: the archive is opened, the extraction directory created and files
\* written only after validateFile returned valid; after an invalid result
\* the call ends with success:false, the archive unopened and the
\* filesystem as it was.
C3_GateBeforeOpen ==
  /\ (opened \/ dirs # fs0.dirs \/ files # fs0.files
        \/ pc \in {"perform", "open", "loop"})
     => gate.isValid
  /\ (gate # NoGate /\ ~gate.isValid)
     => /\ Done /\ ~result.success
        /\ ~opened
        /\ dirs = fs0.dirs /\ files = fs0.files

\* a call refused by the gate for its sniffed type
C3_Witness ==
  /\ Done /\ gate.reason = "Invalid file type" /\ ~result.success /\ ~opened

\* C4: once line 143 has thrown at a member, because the running total
\* exceeded the budget, no member after it is written.
C4_BudgetStopsExtraction ==
  trippedAt > 0 => \A k \in 1..Len(written) : written[k] <= trippedAt

\* C5: a call whose budget check tripped returns success:false together
\* with the outcome accumulated so far, and every other failed call returns
\* no outcome.
C5_BudgetFatalKeepsOutcome ==
  Done => /\ trippedAt > 0 => (~result.success /\ result.hasData)
          /\ (trippedAt = 0 /\ ~result.success) => ~result.hasData

\* a "Skipped" warning that validateZipEntry caused
RejectedSome ==
  \E k \in 1..Len(warnings) :
    warnings[k][1] = "Skipped" /\ warnings[k][3] # "File already exists"

\* C6: a call that passed the gate and the structural validation and
\* rejected a member returns success:true with extractedFiles holding the
\* sanitized paths of the written members in archive order.
C6_RejectionNeverAborts ==
  (Done /\ validationResult.isValid /\ RejectedSome)
  => /\ result.success /\ result.hasData
     /\ extractedFiles =
          [k \in 1..Len(written) |->
             sanitizeFilePath(zip.entries[written[k]].entryName)]

\* C7: a call that passed the gate and the structural validation returns
\* success:true, whatever happened to its members.
C7_EntryFailureNeverFails ==
  (Done /\ validationResult.isValid) => result.success

\* C8: when the loop reaches a member that passed validateZipEntry and whose
\* destination exists: with overwrite off the step adds one "File already
\* exists" warning naming it and changes neither the files, extractedFiles
\* nor totalSize; with overwrite on, a regular file at the destination is
\* rewritten with the member's bytes, its sanitized path appended to
\* extractedFiles and its byte length added to totalSize.
C8_Step ==
  (InLoop /\ ~entry.isDirectory /\ validateZipEntry(entry).isValid
     /\ existsSync(dirs, files, outputPath))
  => IF ~overwrite
     THEN /\ warnings' = Append(warnings,
                 << "Skipped", entry.entryName, "File already exists" >>)
          /\ files' = files
          /\ extractedFiles' = extractedFiles
          /\ written' = written
          /\ totalSize' = totalSize
     ELSE (outputPath \in DOMAIN files /\ entry.readable)
          => /\ files'[outputPath] = [from |-> idx, len |-> entry.dataLen]
             /\ extractedFiles' = Append(extractedFiles, sanitizedPath)
             /\ written' = Append(written, idx)
             /\ totalSize' = totalSize + entry.dataLen

C8_ExistingDestination == [][C8_Step]_vars

\* notes.md was there before the call and was rewritten from the archive
C8_Witness ==
  LET dest == pathJoin(extractPath, NotesMd) IN
  /\ Done /\ overwrite
  /\ dest \in DOMAIN fs0.files
  /\ dest \in DOMAIN files /\ files[dest].from > 0
  /\ NotesMd \in Range(extractedFiles)

RECURSIVE WrittenBytes(_)
WrittenBytes(w) ==
  IF w = << >> THEN 0
  ELSE zip.entries[Head(w)].dataLen + WrittenBytes(Tail(w))

\* C9: extractedFiles is never longer than the member count, has one path
\* per member written, and totalSize is the sum of the byte lengths of the
\* members written.
C9_OutcomeCounts ==
  /\ Len(extractedFiles) <= Len(zip.entries) + zip.pad
  /\ Len(extractedFiles) = Len(written)
  /\ totalSize = WrittenBytes(written)

\* an outcome returned after writing a member whose byte length is not the
\* size its header declares
C9_Witness ==
  /\ Done /\ result.hasData
  /\ \E k \in 1..Len(written) :
       zip.entries[written[k]].dataLen # zip.entries[written[k]].size

\* the input is made only of dots and slashes
OnlyDotsAndSlashes(s) == \A i \in 1..Len(s) : s[i] \in { ".", "/" }

\* C10: sanitizeFilePath returns a non-empty path, applying it to its own
\* result changes nothing, and an input made only of "." , ".." and "/"
\* gives the fallback name.
C10_SanitizeTotalIdempotent ==
  /\ sanPc \in {"once", "twice"}
     => /\ sanOut # << >>
        /\ OnlyDotsAndSlashes(sanIn) => sanOut = FallbackName
  /\ sanPc = "twice" => sanOut2 = sanOut

(***************************************************************************)
(* ContextManager properties                                               *)
(***************************************************************************)
StoredIds(cs) == { cs[i].id : i \in 1..Len(cs) }

\* the record of an id in a collection, as a set that is empty when the
\* collection has none
RecordsOf(cs, id) == { cs[i] : i \in { j \in 1..Len(cs) : cs[j].id = id } }

Persisted == loadContexts(contextsFile)

\* C11: (ContextStore) the effect of every completed create and approve
\* call is present both in the in-memory collection and in the persisted
\* collection: the record a create returned the id of, and the record a
\* successful approve returned, are held unchanged by both.
C11_NoUpdateLost ==
  /\ call.op = "createContext" =>
       /\ RecordsOf(contexts, call.returned.id) # { }
       /\ RecordsOf(Persisted, call.returned.id)
            = RecordsOf(contexts, call.returned.id)
  /\ (call.op = "markApproved" /\ call.returned.success) =>
       /\ RecordsOf(contexts, call.args[1]) = { call.returned.data[1] }
       /\ RecordsOf(Persisted, call.args[1]) = { call.returned.data[1] }

\* what approve(id, approved, reason) must leave in the record old
Decided(old, approved, reason, time) ==
  [ old EXCEPT
      !.status = IF approved THEN "approved" ELSE "rejected",
      !.updated = time,
      !.metadata =
        IF reason = None THEN @
        ELSE Some([ k \in (IF @ = None THEN { } ELSE DOMAIN @[1])
                            \cup { "approvalReason" } |->
                      IF k = "approvalReason" THEN reason[1] ELSE @[1][k] ]) ]

C12_Step ==
  \A id \in Ids, approved \in BOOLEAN, reason \in Reasons :
    (id \in StoredIds(contexts) /\ MarkApproved(id, approved, reason)) =>
      LET old == CHOOSE c \in RecordsOf(contexts, id) : TRUE
          new == Decided(old, approved, reason, now) IN
      /\ Len(contexts') = Len(contexts)
      /\ \A i \in 1..Len(contexts) :
           contexts'[i] = IF contexts[i].id = id THEN new ELSE contexts[i]
      /\ Persisted' = contexts'
      /\ call'.returned.success
      /\ call'.returned.data = Some(new)

\* C12: approve on an existing id sets status to approved or rejected as
\* told, sets updated to the current time, stores a given reason under
\* metadata.approvalReason keeping the other metadata keys, leaves the other
\* fields and the other records unchanged, persists, and returns success:true
\* with the updated context.
C12_ApproveExisting == [][C12_Step]_vars

\* a step of CtxSpec that is a call of markApproved: it leaves the clock
\* alone and sets the last call
ApproveStep == call'.op = "markApproved" /\ now' = now

C13_Step ==
  (ApproveStep /\ call'.args[1] \notin StoredIds(contexts)) =>
    /\ call'.returned.success = FALSE
    /\ call'.returned.message = "Context not found"
    /\ contexts' = contexts
    /\ contextsFile' = contextsFile
    /\ Len(Persisted') = Len(Persisted)

\* C13: approve on an id that no create has returned returns success:false
\* with a not-found message and leaves the in-memory collection, the
\* persisted collection and its length as they were.
C13_ApproveUnknown == [][C13_Step]_vars

\* an approve of an unknown id has returned while the store holds a record
C13_Witness ==
  /\ call.op = "markApproved"
  /\ call.args[1] \notin StoredIds(contexts)
  /\ ~call.returned.success
  /\ contexts # << >>

\* the status of a record changes in this step only by a successful approve
\* of its id, to the decision given; a record that appears is pending; an
\* approve of a stored id succeeds whatever the status was
C14_Step ==
  /\ \A i \in 1..Len(contexts) :
       (i <= Len(contexts') /\ contexts'[i].status # contexts[i].status) =>
          /\ ApproveStep
          /\ call'.args[1] = contexts[i].id
          /\ call'.returned.success
  /\ \A i \in (Len(contexts) + 1)..Len(contexts') :
       contexts'[i].status = "pending"
  /\ (ApproveStep /\ call'.args[1] \in StoredIds(contexts)) =>
       /\ call'.returned.success
       /\ \A c \in RecordsOf(contexts', call'.args[1]) :
            c.status = IF call'.args[2] THEN "approved" ELSE "rejected"

\* C14: the status of a context starts at pending and moves only through
\* approve, and approve does not guard terminal states: on a context that is
\* already approved or rejected it succeeds and overwrites the status with
\* the new decision.
C14_StatusMovesByApprove == [][C14_Step]_vars

\* an approve has turned an approved context into a rejected one
C14_Witness ==
  /\ call.op = "markApproved"
  /\ call.returned.success
  /\ call.prior = Some("approved")
  /\ \E c \in RecordsOf(contexts, call.args[1]) : c.status = "rejected"


PendingOnly == Filter(Some("pending"), None, None, None, None)

C15_Step ==
  \A a \in CreateArgs :
    CreateContext(a[1], a[2], a[3], a[4]) =>
      LET id == call'.returned.id
          made == [ id |-> id, name |-> a[1], type |-> a[2],
                    status |-> "pending", created |-> now, updated |-> now,
                    size |-> a[3], fileCount |-> a[4], metadata |-> None ]
      IN
      /\ id \notin StoredIds(contexts)
      /\ RecordsOf(contexts', id) = { made }
      /\ made.created = made.updated
      /\ RecordsOf(Persisted', id) = { made }
      /\ getContext(contexts', id) = Some(made)
      /\ \E k \in 1..Len(getContexts(contexts', PendingOnly).items) :
           getContexts(contexts', PendingOnly).items[k] = made

\* C15: create(name, type, size, fileCount) returns an id that no existing
\* record uses, stores a record with that id, the given fields, status
\* pending and created = updated, persists it, and the record is at once
\* returned by get(id) and by list({status: pending}) with its fileCount.
C15_CreateStoresPending == [][C15_Step]_vars

\* positions of the records a filter keeps: the status when one other than
\* 'all' is given, the type likewise, the name containing the search string
\* whatever the case of the letters
Kept(cs, f) ==
  { i \in 1..Len(cs) :
      /\ (f.status \in { None, Some("all") } \/ Some(cs[i].status) = f.status)
      /\ (f.type \in { None, Some("all") } \/ Some(cs[i].type) = f.type)
      /\ (f.search = None
          \/ \E j \in 1..Len(cs[i].name), k \in 0..Len(cs[i].name) :
               /\ j + k - 1 <= Len(cs[i].name)
               /\ k = Len(f.search[1])
               /\ \A m \in 1..k :
                    LowerChar(cs[i].name[j + m - 1])
                      = LowerChar(f.search[1][m])) }

LimitOf(f) == IF f.limit = None THEN defaultLimit ELSE f.limit[1]
OffsetOf(f) == IF f.offset = None THEN 0 ELSE f.offset[1]

NewestFirst(s) == \A k \in 1..(Len(s) - 1) : s[k].created >= s[k + 1].created

\* the pages of a filter from an offset on, one after the other
RECURSIVE PagesFrom(_, _, _)
PagesFrom(cs, f, offset) ==
  IF offset >= getContexts(cs, f).total THEN << >>
  ELSE getContexts(cs, [f EXCEPT !.offset = Some(offset)]).items
         \o PagesFrom(cs, f, offset + LimitOf(f))

\* C16: list keeps the records that pass the status, type and
\* case-insensitive name filters, sorts them by created descending, sets
\* total to their number and returns the slice [offset, offset + limit) of
\* that sequence (defaults 20 and 0): items.length <= limit, total does not
\* depend on limit and offset, and the successive pages hold every kept
\* record once, newest first.  Stated of every list call, on the filter it
\* was given and what it returned.
C16_ListFiltersSortsPages ==
  call.op = "getContexts" =>
    LET f == Filter(call.args[1], call.args[2], call.args[3], call.args[4],
                    call.args[5])
        r == call.returned
        kept == Kept(contexts, f)
        all == PagesFrom(contexts, f, 0) IN
    /\ r.total = Cardinality(kept)
    /\ Len(r.items) <= LimitOf(f)
    /\ Len(r.items)
         = IF r.total - OffsetOf(f) < 0 THEN 0
           ELSE Min(LimitOf(f), r.total - OffsetOf(f))
    /\ NewestFirst(all)
    /\ Len(all) = r.total
    /\ { all[k] : k \in 1..Len(all) } = { contexts[i] : i \in kept }
    /\ r.items = SubSeq(all, OffsetOf(f) + 1, OffsetOf(f) + Len(r.items))

\* the second page of one record each has been returned for two records
\* created at different times, the older one first in the store
C16_Witness ==
  /\ call.op = "getContexts"
  /\ call.args[4] = Some(1) /\ call.args[5] = Some(1)
  /\ call.returned.total = 2
  /\ Len(call.returned.items) = 1
  /\ \E i, j \in 1..Len(contexts) :
       i < j /\ contexts[i].created < contexts[j].created
  /\ call.returned.items[1] = contexts[1]

(***************************************************************************)
(* Entry point properties                                                  *)
(***************************************************************************)
\* C17: every extract invocation that returns success:true, through the
\* HTTP upload route or the load_zip tool, is followed by exactly one
\* create of a pending context, and one that returns success:false by none.
C17_ContextPerIngestion ==
  pc = "responded" =>
    IF result.success
    THEN Len(contexts) = 1 /\ contexts[1].status = "pending"
    ELSE contexts = << >>

\* a call that the caller is told succeeded: an approve returning
\* success:true, a create returning its id
ReportsSuccess(c) ==
  \/ c.op = "markApproved" /\ c.returned.success
  \/ c.op = "createContext"

\* a step that changes the collection while the file cannot be written is
\* a create or an approve whose write failed
C18_Step ==
  (~writable /\ contexts' # contexts) => ~ReportsSuccess(call')

\* C18: a call whose write of the persisted store fails is surfaced to the
\* caller as a failure: an approve returns success:false, a create does not
\* report success.
C18_WriteFailureSurfaced == [][C18_Step]_vars

(***************************************************************************)
(* Validator properties                                                    *)
(***************************************************************************)
\* the members that are not directories, by position
FileMembers(z) == { i \in 1..Len(z.entries) : ~z.entries[i].isDirectory }

RECURSIVE SumOf(_, _, _)
SumOf(z, field, S) ==
  IF S = { } THEN 0
  ELSE LET i == CHOOSE j \in S : TRUE
       IN z.entries[i][field] + SumOf(z, field, S \ { i })

\* the checks of validateContents in their order, each with its reason
ContentsChecks(z) ==
  LET n == Len(z.entries) + z.pad
      u == SumOf(z, "size", FileMembers(z))
      c == SumOf(z, "compressedSize", FileMembers(z)) IN
  << << n = 0, "ZIP file is empty" >>,
     << n > 1000, "ZIP contains too many files" >>,
     << u > 100 * c, "Suspicious compression ratio (possible zip bomb)" >>,
     << u > 100 * MiB, "Total uncompressed size exceeds limit" >> >>

\* C19: validateContents fails exactly when the entry list is empty, or has
\* more than 1000 entries, or the uncompressed sizes of the non-directory
\* entries sum to more than 100 times their compressed sizes, or to more
\* than 100 MiB; the reason is that of the first failing check in this
\* order; a value exactly at a threshold passes.
C19_ContentsChecks ==
  valPc = "contents" =>
    LET checks == ContentsChecks(valIn)
        failing == { k \in 1..Len(checks) : checks[k][1] } IN
    /\ valOut.isValid <=> failing = { }
    /\ failing # { } =>
         valOut.reason
           = checks[CHOOSE k \in failing : \A m \in failing : k <= m][2]

\* an archive of exactly 1000 entries whose only file is exactly 100 MiB,
\* exactly 100 times its compressed size, has passed
C19_Witness ==
  /\ valPc = "contents"
  /\ valOut.isValid
  /\ Len(valIn.entries) + valIn.pad = 1000
  /\ SumOf(valIn, "size", FileMembers(valIn)) = 100 * MiB
  /\ SumOf(valIn, "compressedSize", FileMembers(valIn)) = MiB

\* the extension of a name: what follows the last dot of its last segment,
\* with the dot, when that dot is not the first character of the segment
Extension(name) ==
  LET slashes == { i \in 1..Len(name) : name[i] = "/" }
      start == IF slashes = { } THEN 1
               ELSE 1 + CHOOSE i \in slashes : \A j \in slashes : j <= i
      dots == { i \in (start + 1)..Len(name) : name[i] = "." }
  IN IF dots = { } THEN << >>
     ELSE SubSeq(name, CHOOSE i \in dots : \A j \in dots : j <= i, Len(name))

\* C20: validateEntry fails exactly when the raw name contains '..',
\* contains a backslash or begins with '/', or its extension, compared
\* without regard to case, is non-empty and not an allowed one, or the
\* declared uncompressed size is more than 10 MiB; a name without an
\* extension and a size of exactly 10 MiB pass.
C20_EntryChecks ==
  valPc = "entry" =>
    LET ext == Extension(valIn.entryName) IN
    valOut.isValid <=>
      ~ \/ TraversalName(valIn.entryName)
        \/ (ext # << >>
            /\ [i \in 1..Len(ext) |-> LowerChar(ext[i])]
                 \notin allowedExtensions)
        \/ valIn.size > 10 * MiB

\* a member named in upper case (a.MD) of exactly 10 MiB has passed
C20_Witness ==
  /\ valPc = "entry"
  /\ valOut.isValid
  /\ valIn.entryName = << "a", ".", "M", "D" >>
  /\ valIn.size = 10 * MiB

\* the file name of a path: what follows its last slash
FileNameOf(p) ==
  LET slashes == { i \in 1..Len(p) : p[i] = "/" }
      start == IF slashes = { } THEN 1
               ELSE 1 + CHOOSE i \in slashes : \A j \in slashes : j <= i
  IN SubSeq(p, start, Len(p))

\* s holds the word w, compared without regard to case
HoldsWord(s, w) ==
  \E i \in 0..(Len(s) - Len(w)) :
    \A k \in 1..Len(w) : LowerChar(s[i + k]) = LowerChar(w[k])

\* the checks of validateFile in their order, each with its reason and
\* whether it carries details; the third is the read that the sniffing
\* needs, whose exception is the gate's own failure
GateChecks(f) ==
  LET n == FileNameOf(f.path) IN
  << << ~f.exists, "File does not exist", FALSE >>,
     << f.size > 50 * MiB, "File size exceeds maximum allowed size", TRUE >>,
     << ~f.readable, "Security validation failed", TRUE >>,
     << f.mime \notin { "application/zip", "application/x-zip-compressed" },
        "Invalid file type", TRUE >>,
     << \/ HoldsWord(n, << ".", "." >>) \/ HoldsWord(n, << "\\" >>)
        \/ HoldsWord(n, << "NUL" >>)
        \/ HoldsWord(n, << "<","s","c","r","i","p","t" >>)
        \/ HoldsWord(n, << "j","a","v","a","s","c","r","i","p","t",":" >>),
        "Filename contains dangerous patterns", TRUE >> >>

\* C21: validateFile checks, in this order, that the file exists, its size,
\* its sniffed content type and its file name, and returns the reason of
\* the first check that fails, whatever the later ones would say; a file of
\* exactly 50 MiB passes the size check and a larger one fails; success
\* carries no reason and no details; an exception inside the gate (the read
\* of the file) gives an invalid result, never a thrown error.
C21_GateOrder ==
  valPc = "gate" =>
    LET checks == GateChecks(valIn)
        failing == { k \in 1..Len(checks) : checks[k][1] }
        first == CHOOSE k \in failing : \A m \in failing : k <= m IN
    /\ valOut.isValid \in BOOLEAN
    /\ valOut.isValid <=> failing = { }
    /\ valOut.isValid => valOut.reason = Null /\ valOut.details = << >>
    /\ failing # { } =>
         /\ valOut.reason = checks[first][2]
         /\ (valOut.details # << >>) <=> checks[first][3]
    /\ (valIn.exists /\ valIn.size = 50 * MiB) =>
         valOut.reason # "File size exceeds maximum allowed size"
    /\ (valIn.exists /\ valIn.size > 50 * MiB) =>
         valOut.reason = "File size exceeds maximum allowed size"

\* a file over the size limit that is also unreadable, of no known type and
\* badly named has been refused for its size
C21_Witness ==
  /\ valPc = "gate"
  /\ valIn.exists /\ valIn.size > 50 * MiB /\ ~valIn.readable
  /\ valIn.mime = Null
  /\ FileNameOf(valIn.path) = << "a",".",".","z" >>
  /\ valOut = [ isValid |-> FALSE,
                reason |-> "File size exceeds maximum allowed size",
                details |-> << "actualSize", "maxSize" >> ]

Holds(s, w) ==
  \E i \in 0..(Len(s) - Len(w)) : \A k \in 1..Len(w) : s[i + k] = w[k]

\* C23: every path the sanitizer returns, for every input string, is a
\* non-empty relative path: it has no segment equal to '.' or '..', no
\* empty segment, no leading '/', no backslash and no null byte.
C23_SanitizedShape ==
  sanPc \in { "once", "twice" } =>
    LET framed == << "/" >> \o sanOut \o << "/" >> IN
    /\ sanOut # << >>
    /\ sanOut[1] # "/"
    /\ ~Holds(framed, << "/", "/" >>)
    /\ ~Holds(framed, << "/", ".", "/" >>)
    /\ ~Holds(framed, << "/", ".", ".", "/" >>)
    /\ ~Holds(sanOut, << "\\" >>)
    /\ ~Holds(sanOut, << "NUL" >>)

\* the name '../\' has been sanitized to two segments
C23_Witness ==
  /\ sanPc = "once"
  /\ sanIn = << ".", ".", "/", "\\" >>
  /\ Holds(sanOut, << "/" >>)

(***************************************************************************)
(* Outcome properties                                                      *)
(***************************************************************************)
Increasing(s) == \A i, j \in 1..Len(s) : i < j => s[i] < s[j]

\* C24: on every completed extract, warnings holds exactly one string per
\* non-directory entry that was skipped or failed and none for an entry
\* that was written: extractedFiles.length + warnings.length is the number
\* of non-directory entries, both are in archive order, and no entry is
\* both listed in extractedFiles and named in a warning.
C24_OneOutcomePerEntry ==
  (Done /\ result.success) =>
    /\ Len(extractedFiles) = Len(written) /\ Len(warnings) = Len(warned)
    /\ Len(extractedFiles) + Len(warnings) = Cardinality(FileMembers(zip))
    /\ Increasing(written) /\ Increasing(warned)
    /\ \A k \in 1..Len(warned) :
         warnings[k][2] = zip.entries[warned[k]].entryName
    /\ Range(written) \cap Range(warned) = { }

(***************************************************************************)
(* Store properties                                                        *)
(***************************************************************************)
\* a create, or an approve of a stored id, has just returned
Mutated ==
  \/ call.op = "createContext"
  \/ call.op = "markApproved" /\ call.returned.success

\* C25: after every create or approve whose write succeeds, the persisted
\* collection is the in-memory collection, and a store started from that
\* file holds the same records in the same order, field for field, as the
\* store that wrote it.
C25_PersistedIsStore ==
  (Mutated /\ writable) =>
    /\ contextsFile # None
    /\ Len(contextsFile[1]) = Len(contexts)
    /\ \A i \in 1..Len(contexts) :
         \A k \in DOMAIN contexts[i] :
           IF k \in { "fileCount", "metadata" }
           THEN IF contexts[i][k] = << >>
                THEN k \notin DOMAIN contextsFile[1][i]
                ELSE /\ k \in DOMAIN contextsFile[1][i]
                     /\ contextsFile[1][i][k] = contexts[i][k][1]
           ELSE /\ k \in DOMAIN contextsFile[1][i]
                /\ contextsFile[1][i][k] = contexts[i][k]
    /\ Len(loadContexts(contextsFile)) = Len(contexts)
    /\ \A i \in 1..Len(contexts) :
         \A k \in DOMAIN contexts[i] :
           loadContexts(contextsFile)[i][k] = contexts[i][k]

\* an approve with a reason has been written to a file that already held a
\* record, next to a created record without metadata
C25_Witness ==
  /\ writable /\ call.op = "markApproved" /\ call.returned.success
  /\ Len(contexts) = 2
  /\ \E i, j \in 1..2 :
       /\ contexts[i].metadata = None
       /\ contexts[j].fileCount = None
       /\ contexts[j].metadata # None
       /\ "approvalReason" \in DOMAIN contexts[j].metadata[1]
  /\ loadContexts(contextsFile) = contexts

\* the records the last call handed to its caller
ReturnedRecords(c) ==
  IF c.op = "getContexts" THEN Range(c.returned.items)
  ELSE IF c.op = "markApproved" /\ c.returned.success
  THEN { c.returned.data[1] }
  ELSE { }

C26_Step ==
  ApproveStep =>
    \A r \in ReturnedRecords(call) : read(contexts', r) = r

\* C26: the store is the sole writer and readers receive copies: a record
\* that get, list or approve returned keeps, for the caller that holds it,
\* the value it was returned with when the store approves or rejects that
\* context later.
C26_ReadersHoldCopies == [][C26_Step]_vars

\* a step that is a call of createContext
CreateStep == call'.op = "createContext" /\ contexts' # contexts

C27_Step ==
  /\ StoredIds(contexts) \subseteq StoredIds(contexts')
  /\ Len(contexts') >= Len(contexts)
  /\ \A i \in 1..Len(contexts) : contexts'[i].id = contexts[i].id
  /\ \A i, j \in 1..Len(contexts') :
       i # j => contexts'[i].id # contexts'[j].id
  /\ CreateStep =>
       /\ Len(contexts') = Len(contexts) + 1
       /\ contexts'[Len(contexts')].id = call'.returned.id

\* C27: no operation of the store removes a context or changes its id:
\* across every step the set of stored ids only grows, the stored ids are
\* distinct, every record keeps its id, and the record a create adds has
\* the id that create returned.
C27_IdsOnlyGrow == [][C27_Step]_vars

\* a context has been created after another one was decided
C27_Witness ==
  /\ call.op = "createContext"
  /\ Len(contexts) = 2
  /\ contexts[1].status # "pending"
  /\ contexts[2].id = call.returned.id
  /\ contexts[1].id # contexts[2].id

\* C28: in every reachable state every stored record has updated >= created,
\* after create, whose two timestamps are two reads of the clock, and after
\* any number of approve calls.
C28_UpdatedNotBeforeCreated ==
  \A i \in 1..Len(contexts) : contexts[i].updated >= contexts[i].created

\* a created record has been decided and its updated is later than its
\* created
C28_Witness ==
  /\ call.op = "markApproved" /\ call.returned.success
  /\ \E i \in 1..Len(contexts) :
       /\ contexts[i].id = call.args[1]
       /\ contexts[i].id \in Uuids
       /\ contexts[i].updated > contexts[i].created

C29_Step ==
  \A i \in 1..Len(contexts) :
    contexts[i].status \in { "approved", "rejected" } =>
      /\ i <= Len(contexts')
      /\ contexts'[i].id = contexts[i].id
      /\ contexts'[i].status \in { "approved", "rejected" }

\* C29: once approve has succeeded on a context, its status is approved or
\* rejected in every later state: no step of the store sets a status back
\* to pending.
C29_DecidedStaysDecided == [][C29_Step]_vars

\* a context that had been rejected has been approved
C29_Witness ==
  /\ call.op = "markApproved" /\ call.returned.success
  /\ call.prior = Some("rejected")
  /\ call.returned.data[1].status = "approved"
  /\ RecordsOf(contexts, call.args[1]) = { call.returned.data[1] }

\* the directory <cwd>/data or a path below it
InData(p) ==
  LET data == Cwd \o << << "d","a","t","a" >> >> IN
  p = data \/ (Len(p) > Len(data) /\ SubSeq(p, 1, Len(data)) = data)

\* C30: for every extract_to value a caller can pass, with '..' or absolute
\* ones among them, the resolved extraction root, and with it every
\* directory extract creates and every file it writes, lies under
\* <cwd>/data.
C30_RootUnderData ==
  /\ extractPath # << >> => InData(extractPath)
  /\ \A d \in dirs \ fs0.dirs : InData(d)
  /\ \A p \in WrittenPaths : InData(p)

====
